---- MODULE Spec2Model ----
(***************************************************************************)
(* Model of src/services/processingQueue.js (class ProcessingQueue): the   *)
(* in-memory job queue behind /api/queue.                                  *)
(*                                                                         *)
(* JavaScript runs every synchronous stretch of code to completion, so an  *)
(* action of the model is one such stretch: a whole public method call,    *)
(* or the part of processNext that runs between two suspensions at         *)
(* `await this.executeJob(job)` (line 56).  A job object is named by its   *)
(* submission index (1 for the first addJob call, 2 for the second ...).   *)
(*                                                                         *)
(* Spec is the queue as the repository runs it: no listener is registered  *)
(* on it (src/routes/queueRoutes.js) and the logger returns.  SpecFaults   *)
(* adds what a caller of the class can cause: a listener of a notification *)
(* that throws, or a logger call that throws.  SpecExec submits every     *)
(* combination of job type and operation that executeJob tells apart.      *)
(* SpecIds lets the clock reading and the random suffix of a job id        *)
(* repeat; the other three take every id to be new.  SpecLive is Spec with *)
(* every awaited executeJob settling in the end.  SpecRoutes drives the    *)
(* queue through the handlers of src/routes/queueRoutes.js, with the       *)
(* queue file of src/services/databaseService.js in any condition.         *)
(***************************************************************************)
EXTENDS Integers, Sequences, FiniteSets, TLC

VARIABLES
  queue,       \* this.queue: the pending jobs, in array order
  processing,  \* this.processing
  activeJobs,  \* this.activeJobs
  jobs,        \* the job objects created so far, by submission index
  awaiting,    \* jobs whose executeJob a processNext invocation awaits
  immediates,  \* setImmediate callbacks scheduled and not yet run
  events,      \* events[j]: the notifications emitted about job j, in order
  cleared,     \* the jobs discarded by clearQueue
  started,     \* the jobs shifted off the queue by processNext, in order
  removed,     \* the jobs spliced out of the queue by removeJob
  faults,      \* how many logger calls or listeners have thrown
  calls,       \* calls[j]: the processor routines invoked for job j, in order
  raised,      \* raised[j]: the message of the error executeJob(j) threw
  seen,        \* seen[j]: what a listener of jobCompleted and jobFailed
               \* reads off the queue when it is notified about job j
  posting,     \* the jobs whose POST /jobs handler awaits addToQueue
  answers      \* the responses the route handlers have sent

vars == <<queue, processing, activeJobs, jobs, awaiting, immediates,
          events, cleared, started, removed, faults, calls, raised, seen,
          posting, answers>>

\* ----- bounds of the model -------------------------------------------
\* addJob calls in a behaviour of Spec
MaxJobs == 3
\* addJob calls, and throwing logger calls or listeners, in a behaviour
\* of SpecFaults
MaxFaultyJobs == 2
MaxFaults == 1
\* addJob calls in a behaviour of SpecExec
MaxExecJobs == 2
\* addJob calls in a behaviour of SpecIds
MaxIdJobs == 2
\* addJob calls in a behaviour of SpecLive
MaxLiveJobs == 3
\* addJob calls in a behaviour of SpecRoutes
MaxRouteJobs == 2

\* ----- program constants ----------------------------------------------
maxConcurrent == 2

Priorities == {"high", "normal", "low"}
\* the priority a caller passes to addJob: one of the three, or none
PriorityArgs == Priorities \cup {"undefined"}
\* the caller passes none (SpecExec)
NoPriority == {"undefined"}
\* where a logger call or a listener of an emitted event may throw
Faults == {"none", "log", "emit"}
\* Math.random().toString(36).substr(2, 9)
Suffixes == {"a", "b"}
\* the job ids a caller may ask about, as <<Date.now(), suffix>>; the
\* clock never reads 0, so an id with 0 is one no job has
JobIds == (0..MaxJobs) \X Suffixes

\* job.type: the three categories executeJob knows and one it does not
Types == {"image", "document", "media", "archive"}
\* job.operation: the four operations the routines know and one they do not
Operations == {"resize", "convert", "compress", "extract", "rotate"}
\* a job's type and operation
JobKinds == Types \X Operations
\* the combinations submitted in Spec and SpecFaults: one that a routine
\* serves and one that none serves
FewKinds == {<<"image", "resize">>, <<"document", "resize">>}

\* error.message, a text and the value interpolated into it; no error
NoError == <<>>
\* the messages of the errors a processor routine may raise
RoutineErrors == {<<"ENOENT">>, <<"EINVAL">>}
\* the only one raised in Spec and SpecFaults
FewErrors == {<<"ENOENT">>}

Range(f) == {f[i] : i \in DOMAIN f}

\* ----- helpers --------------------------------------------------------
priorityOrder(p) ==
  CASE p = "high" -> 3
    [] p = "normal" -> 2
    [] p = "low" -> 1

\* the comparator handed to Array.prototype.sort
compare(js, a, b) == priorityOrder(js[b].priority) - priorityOrder(js[a].priority)

\* mutant: an unstable sort, an element goes before its equals
RECURSIVE InsertSorted_Unstable(_, _, _)
InsertSorted_Unstable(js, sorted, x) ==
  IF sorted = <<>> THEN <<x>>
  ELSE IF compare(js, Head(sorted), x) < 0
       THEN <<Head(sorted)>> \o InsertSorted_Unstable(js, Tail(sorted), x)
       ELSE <<x>> \o sorted

\* Array.prototype.sort is stable: an element is placed behind every
\* element that does not compare greater than it.
RECURSIVE InsertSorted(_, _, _)
InsertSorted(js, sorted, x) ==
  IF sorted = <<>> THEN <<x>>
  ELSE IF compare(js, Head(sorted), x) <= 0
       THEN <<Head(sorted)>> \o InsertSorted(js, Tail(sorted), x)
       ELSE <<x>> \o sorted

RECURSIVE SortQueue(_, _)
SortQueue(js, q) ==
  IF q = <<>> THEN <<>>
  ELSE InsertSorted(js, SortQueue(js, SubSeq(q, 1, Len(q) - 1)), q[Len(q)])

\* `job_${Date.now()}_${random}`
NewJobId(now, suffix) == <<now, suffix>>

\* the ids addJob may make when the clock has advanced since the last
\* call: one not made before
FreshIds(n) == {NewJobId(n, "a")}

\* the ids addJob may make when the clock may have stood still and
\* Math.random may repeat
AnyIds(n) == {NewJobId(now, suffix) : now \in {1, 2}, suffix \in Suffixes}

\* queue.findIndex(j => j.id === jobId): 0 when there is none
RECURSIVE FindIndexFrom(_, _, _, _)
FindIndexFrom(js, q, jobId, i) ==
  IF i > Len(q) THEN 0
  ELSE IF js[q[i]].id = jobId THEN i
  ELSE FindIndexFrom(js, q, jobId, i + 1)

findIndex(js, q, jobId) == FindIndexFrom(js, q, jobId, 1)

\* mutant: slice in place of splice, the array keeps the element
RemoveAt_Slice(q, i) == q

\* queue.splice(index, 1)
RemoveAt(q, i) == SubSeq(q, 1, i - 1) \o SubSeq(q, i + 1, Len(q))

\* null, as a job or as a job id
Null == 0

\* ----- the state as one record, for composing the steps of a method ---
Core ==
  [queue |-> queue, processing |-> processing, activeJobs |-> activeJobs,
   jobs |-> jobs, awaiting |-> awaiting, immediates |-> immediates,
   events |-> events, cleared |-> cleared,
   started |-> started, removed |-> removed, faults |-> faults,
   calls |-> calls, raised |-> raised, seen |-> seen,
   posting |-> posting, answers |-> answers]

Set(s) ==
  /\ queue' = s.queue
  /\ processing' = s.processing
  /\ activeJobs' = s.activeJobs
  /\ jobs' = s.jobs
  /\ awaiting' = s.awaiting
  /\ immediates' = s.immediates
  /\ events' = s.events
  /\ cleared' = s.cleared
  /\ started' = s.started
  /\ removed' = s.removed
  /\ faults' = s.faults
  /\ calls' = s.calls
  /\ raised' = s.raised
  /\ seen' = s.seen
  /\ posting' = s.posting
  /\ answers' = s.answers

\* a logger call or a listener throws
Throw(s) == [s EXCEPT !.faults = @ + 1]

\* no logger call and no listener throws
NoFaults == {"none"}

NoThrows == {FALSE}

\* the faults that may still happen
FaultsLeft == IF faults < MaxFaults THEN Faults ELSE NoFaults

ThrowsLeft == IF faults < MaxFaults THEN BOOLEAN ELSE NoThrows

\* mutant: the total leaves the executing jobs out
getQueueStatus_TotalIsQueued(s) ==
  [queued |-> Len(s.queue),
   processing |-> s.activeJobs,
   total |-> Len(s.queue),
   maxConcurrent |-> maxConcurrent]

\* lines 151-158: the snapshot getQueueStatus returns
getQueueStatus(s) ==
  [queued |-> Len(s.queue),
   processing |-> s.activeJobs,
   total |-> Len(s.queue) + s.activeJobs,
   maxConcurrent |-> maxConcurrent]

\* this.emit(name, job): the listeners run inside the call, so what they
\* read is the state at the call: getQueueStatus().processing, and the
\* jobs whose execution has not settled
Emit(s, name, job) ==
  [s EXCEPT !.events[job] = Append(@, name),
            !.seen[job] =
              IF name \in {"jobCompleted", "jobFailed"}
              THEN Append(@, [processing |-> getQueueStatus(s).processing,
                              executing |-> Cardinality(s.awaiting)])
              ELSE @]

\* ----- executeJob (lines 85-129) --------------------------------------
\* No processor routine
NoRoutine == "none"

\* lines 100-111: the routine called, or the error thrown
processImageJob(operation) ==
  CASE operation = "resize" -> [routine |-> "resizeImage", thrown |-> NoError]
    [] operation = "convert" -> [routine |-> "convertImage", thrown |-> NoError]
    [] operation = "compress" -> [routine |-> "compressImage", thrown |-> NoError]
    [] OTHER -> [routine |-> NoRoutine,
                 thrown |-> <<"Unsupported image operation: ", operation>>]

\* mutant: the default branch serves the operation like 'extract'
processDocumentJob_Fallthrough(operation) ==
  IF operation = "convert"
  THEN [routine |-> "convertDocument", thrown |-> NoError]
  ELSE [routine |-> "extractFileMetadata", thrown |-> NoError]

\* lines 113-122
processDocumentJob(operation) ==
  CASE operation = "convert" -> [routine |-> "convertDocument", thrown |-> NoError]
    [] operation = "extract" -> [routine |-> "extractFileMetadata", thrown |-> NoError]
    [] OTHER -> [routine |-> NoRoutine,
                 thrown |-> <<"Unsupported document operation: ", operation>>]

\* lines 124-129
processMediaJob(operation) ==
  IF operation = "extract"
  THEN [routine |-> "extractFileMetadata", thrown |-> NoError]
  ELSE [routine |-> NoRoutine,
        thrown |-> <<"Unsupported media operation: ", operation>>]

\* lines 85-98, the synchronous part of the call: the processor routine
\* it invokes, or the error it throws without invoking one
executeJob(job) ==
  CASE job.type = "image" -> processImageJob(job.operation)
    [] job.type = "document" -> processDocumentJob(job.operation)
    [] job.type = "media" -> processMediaJob(job.operation)
    [] OTHER -> [routine |-> NoRoutine,
                 thrown |-> <<"Unknown job type: ", job.type>>]

\* how the promise of executeJob(job) may settle: NoError when it
\* fulfils, else the message of the error it rejects with
Outcomes(job, errorSet) ==
  IF executeJob(job).thrown # NoError THEN {executeJob(job).thrown}
  ELSE {NoError} \cup errorSet

\* ----- processNext ----------------------------------------------------
\* mutant: the guard does not look at the processing flag
Blocked_IgnoresFlag(s) ==
  s.activeJobs >= maxConcurrent \/ Len(s.queue) = 0

\* mutant: the guard looks at the counter only
Blocked_OnlyCeiling(s) == s.activeJobs >= maxConcurrent

\* line 33: the guard that turns processNext into a no-op
Blocked(s) ==
  s.processing \/ s.activeJobs >= maxConcurrent \/ Len(s.queue) = 0

\* line 45: the loop condition
LoopCond(s) == Len(s.queue) > 0 /\ s.activeJobs < maxConcurrent

\* mutant: the job taken is put back at the tail
Dequeue_Rotate(q) == [job |-> Head(q), rest |-> Append(Tail(q), Head(q))]

\* mutant: queue[0] in place of shift(), the job stays in the array
Dequeue_Peek(q) == [job |-> Head(q), rest |-> q]

\* line 46: const job = this.queue.shift()
Dequeue(q) == [job |-> Head(q), rest |-> Tail(q)]

\* lines 46-56: take the head job, count it, log, mark it processing and
\* suspend on its execution.  startThrows: the logger call of line 49
\* (outside the try) throws, which ends this processNext invocation.
StartJob(s, startThrows) ==
  LET job == Dequeue(s.queue).job
      s1 == [s EXCEPT !.queue = Dequeue(@).rest,
                      !.activeJobs = @ + 1,
                      !.started = Append(@, job)]
      routine == executeJob(s.jobs[job]).routine
  IN IF startThrows THEN Throw(s1)
     ELSE [s1 EXCEPT !.jobs[job].status = "processing",
                     !.calls[job] = IF routine = NoRoutine THEN @
                                    ELSE Append(@, routine),
                     !.awaiting = @ \cup {job}]

\* mutant: the flag is not lowered after the loop
LoopExit_KeepsFlag(s) ==
  [s EXCEPT !.immediates = IF Len(s.queue) > 0 THEN @ + 1 ELSE @]

\* lines 77-82: leave the loop
LoopExit(s) ==
  [s EXCEPT !.processing = FALSE,
            !.immediates = IF Len(s.queue) > 0 THEN @ + 1 ELSE @]

\* mutant: the queue is sorted again before every shift
Loop_Sorted(s, startThrows) ==
  IF LoopCond(s)
  THEN StartJob([s EXCEPT !.queue = SortQueue(s.jobs, @)], startThrows)
  ELSE LoopExit(s)

\* lines 45-82 from the loop condition to the next suspension
Loop(s, startThrows) ==
  IF LoopCond(s) THEN StartJob(s, startThrows) ELSE LoopExit(s)

\* lines 32-56: a call of processNext up to its first suspension
processNext(s, startThrows) ==
  IF Blocked(s) THEN s
  ELSE Loop([s EXCEPT !.processing = TRUE,
                      !.queue = SortQueue(s.jobs, @)], startThrows)

\* ----- initial state (constructor) ------------------------------------
Init ==
  /\ queue = <<>>
  /\ processing = FALSE
  /\ activeJobs = 0
  /\ jobs = <<>>
  /\ awaiting = {}
  /\ immediates = 0
  /\ events = <<>>
  /\ cleared = {}
  /\ started = <<>>
  /\ removed = {}
  /\ faults = 0
  /\ calls = <<>>
  /\ raised = <<>>
  /\ seen = <<>>
  /\ posting = {}
  /\ answers = {}

\* ----- addJob ---------------------------------------------------------
NewJob(jobId, priorityArg, kind) ==
  [id |-> jobId,
   type |-> kind[1],
   operation |-> kind[2],
   status |-> "queued",
   priority |-> IF priorityArg = "undefined" THEN "normal" ELSE priorityArg,
   result |-> FALSE,
   error |-> NoError]

\* mutant: the dispatch attempt comes before the notification
addJob_DispatchFirst(s, jobId, priorityArg, kind, fault, startThrows) ==
  LET n == Len(s.jobs) + 1
      Out(state) == [s |-> state, result |-> jobId, threw |-> fault # "none"]
      s1 == [s EXCEPT !.jobs = Append(@, NewJob(jobId, priorityArg, kind)),
                      !.events = Append(@, <<>>),
                      !.calls = Append(@, <<>>),
                      !.raised = Append(@, NoError),
                      !.seen = Append(@, <<>>),
                      !.queue = Append(@, n)]
      s2 == Emit(processNext(s1, startThrows), "jobAdded", n)
  IN IF fault = "none" THEN Out(s2) ELSE Out(Throw(s2))

\* lines 13-30.  The result is the call's outcome: the state it leaves,
\* the value it returns, and whether it threw instead of returning.
addJob(s, jobId, priorityArg, kind, fault, startThrows) ==
  LET n == Len(s.jobs) + 1
      Out(state) == [s |-> state, result |-> jobId, threw |-> fault # "none"]
      s1 == [s EXCEPT !.jobs = Append(@, NewJob(jobId, priorityArg, kind)),
                      !.events = Append(@, <<>>),
                      !.calls = Append(@, <<>>),
                      !.raised = Append(@, NoError),
                      !.seen = Append(@, <<>>),
                      !.queue = Append(@, n)]
  IN IF fault = "log" THEN Out(Throw(s1))
     ELSE IF fault = "emit" THEN Out(Throw(Emit(s1, "jobAdded", n)))
     ELSE Out(processNext(Emit(s1, "jobAdded", n), startThrows))

\* the callers of addJob pass no id property of their own
\* (src/routes/queueRoutes.js lines 51-58), so the spread of line 17
\* leaves jobId in place
AddJobWith(maxJobs, idSet, prioritySet, kindSet, faultSet, throwSet) ==
  /\ Len(jobs) < maxJobs
  /\ \E jobId \in idSet, priorityArg \in prioritySet, kind \in kindSet,
        fault \in faultSet :
       \E startThrows \in IF fault = "none" THEN throwSet ELSE NoThrows :
         Set(addJob(Core, jobId, priorityArg, kind, fault, startThrows).s)

AddJob ==
  AddJobWith(MaxJobs, FreshIds(Len(jobs) + 1), PriorityArgs, FewKinds,
             NoFaults, NoThrows)

AddJobFaulty ==
  AddJobWith(MaxFaultyJobs, FreshIds(Len(jobs) + 1), PriorityArgs, FewKinds,
             FaultsLeft, ThrowsLeft)

AddJobExec ==
  AddJobWith(MaxExecJobs, FreshIds(Len(jobs) + 1), NoPriority, JobKinds,
             NoFaults, NoThrows)

AddJobLive ==
  AddJobWith(MaxLiveJobs, FreshIds(Len(jobs) + 1), NoPriority, FewKinds,
             NoFaults, NoThrows)

AddJobIds ==
  AddJobWith(MaxIdJobs, AnyIds(Len(jobs) + 1), NoPriority, FewKinds,
             NoFaults, NoThrows)

\* ----- completion of an executing job (lines 56-75) --------------------
\* mutant: the status assignment of line 58 is missing
Completed_KeepsStatus(job) == [job EXCEPT !.result = TRUE]

\* lines 58-60
Completed(job) == [job EXCEPT !.status = "completed", !.result = TRUE]

\* mutant: a failed job is marked for another attempt
Failed_Requeued(job, message) ==
  [job EXCEPT !.status = "queued", !.error = message]

\* mutant: a fixed text is recorded in place of error.message
Failed_Generic(job, message) ==
  [job EXCEPT !.status = "failed", !.error = <<"Job failed">>]

\* lines 66-68
Failed(job, message) == [job EXCEPT !.status = "failed", !.error = message]

\* lines 56-63: the rest of the try block once executeJob has settled.
\* thrown is the message of the error that leaves the block, "none" when
\* the block ends normally.
TryBlock(s, j, outcome, fault) ==
  IF outcome # NoError THEN [s |-> s, thrown |-> outcome]
  ELSE LET s1 == [s EXCEPT !.jobs[j] = Completed(@)]
       IN IF fault = "log" THEN [s |-> Throw(s1), thrown |-> <<"logger error">>]
          ELSE IF fault = "emit"
               THEN [s |-> Throw(Emit(s1, "jobCompleted", j)),
                     thrown |-> <<"listener error">>]
               ELSE [s |-> Emit(s1, "jobCompleted", j), thrown |-> NoError]

\* lines 65-71: the catch block; thrown as for TryBlock
CatchBlock(s, j, message, fault) ==
  LET s1 == [s EXCEPT !.jobs[j] = Failed(@, message)]
  IN IF fault = "log" THEN [s |-> Throw(s1), thrown |-> <<"logger error">>]
     ELSE IF fault = "emit"
          THEN [s |-> Throw(Emit(s1, "jobFailed", j)),
                thrown |-> <<"listener error">>]
          ELSE [s |-> Emit(s1, "jobFailed", j), thrown |-> NoError]

\* mutant: the finally block does not release the job's slot
Finally_KeepsSlot(s) == s

\* lines 72-74
Finally(s) == [s EXCEPT !.activeJobs = @ - 1]

\* mutant: processNext handles one job per invocation and leaves the
\* rest of the queue to the setImmediate callback
resume_OnePerCall(s, j, outcome, tryFault, catchFault, startThrows) ==
  LET s0 == [s EXCEPT !.awaiting = @ \ {j}, !.raised[j] = outcome]
      t == TryBlock(s0, j, outcome, tryFault)
      c == IF t.thrown = NoError THEN t
           ELSE CatchBlock(t.s, j, t.thrown, catchFault)
      f == Finally(c.s)
  IN IF c.thrown = NoError THEN LoopExit(f) ELSE f

\* lines 56-82: processNext resumes when executeJob(job j) has settled
\* and runs to its next suspension or to its end.  An error thrown by
\* the catch block leaves processNext after the finally block.
resume(s, j, outcome, tryFault, catchFault, startThrows) ==
  LET s0 == [s EXCEPT !.awaiting = @ \ {j}, !.raised[j] = outcome]
      t == TryBlock(s0, j, outcome, tryFault)
      c == IF t.thrown = NoError THEN t
           ELSE CatchBlock(t.s, j, t.thrown, catchFault)
      f == Finally(c.s)
  IN IF c.thrown = NoError THEN Loop(f, startThrows) ELSE f

\* outcome: executeJob returned a result (NoError) or threw an error
ResumeWith(errorSet, faultSet, throwSet) ==
  \E j \in awaiting :
   \E outcome \in Outcomes(jobs[j], errorSet) :
    \E tryFault \in IF outcome = NoError THEN faultSet ELSE NoFaults :
      \E catchFault \in IF outcome = NoError /\ tryFault = "none"
                         THEN NoFaults ELSE faultSet :
        \E startThrows \in IF catchFault = "none" THEN throwSet ELSE NoThrows :
          LET s == resume(Core, j, outcome, tryFault, catchFault, startThrows)
          IN /\ s.faults <= MaxFaults
             /\ Set(s)

Resume == ResumeWith(FewErrors, NoFaults, NoThrows)

ResumeFaulty == ResumeWith(FewErrors, FaultsLeft, ThrowsLeft)

ResumeExec == ResumeWith(RoutineErrors, NoFaults, NoThrows)

\* ----- processNext called on its own (setImmediate callback, caller) ---
ProcessNextCallWith(throwSet) ==
  \E viaImmediate \in {v \in BOOLEAN : v => immediates > 0},
     startThrows \in throwSet :
    Set(processNext([Core EXCEPT !.immediates =
                       IF viaImmediate THEN @ - 1 ELSE @], startThrows))

ProcessNextCall == ProcessNextCallWith(NoThrows)

ProcessNextCallFaulty == ProcessNextCallWith(ThrowsLeft)

\* ----- getJobStatus (lines 131-149) -----------------------------------
\* mutant: a job that is not found is reported as a failed one
getJobStatus_Failed(s, jobId) ==
  LET index == findIndex(s.jobs, s.queue, jobId)
  IN IF index = 0 THEN "failed" ELSE s.jobs[s.queue[index]].status

getJobStatus(s, jobId) ==
  LET index == findIndex(s.jobs, s.queue, jobId)
  IN IF index = 0 THEN "not_found" ELSE s.jobs[s.queue[index]].status

\* the call builds its answer, for whatever id, and writes nothing
GetJobStatus ==
  /\ {getJobStatus(Core, jobId) : jobId \in JobIds}
       \subseteq {"not_found", "queued", "processing", "completed", "failed"}
  /\ UNCHANGED vars

\* ----- getQueueStatus (lines 151-158) ---------------------------------
GetQueueStatus ==
  /\ getQueueStatus(Core).total >= 0
  /\ UNCHANGED vars

\* ----- clearQueue (lines 160-166) -------------------------------------
\* mutant: the call also resets the counter of executing jobs
clearQueue_ResetsActive(s, fault) ==
  [s |-> [s EXCEPT !.queue = <<>>, !.activeJobs = 0,
                   !.cleared = @ \cup Range(s.queue)],
   result |-> Len(s.queue), threw |-> FALSE]

\* line 161: the count clearQueue emits with queueCleared and returns
clearedCount(s) == Len(s.queue)

\* queueCleared carries the count only; the model files it under every
\* job the call discarded
clearQueue(s, fault) ==
  LET Out(state) == [s |-> state, result |-> clearedCount(s),
                     threw |-> fault # "none"]
      s1 == [s EXCEPT !.queue = <<>>,
                      !.cleared = @ \cup Range(s.queue)]
      s2 == [s1 EXCEPT !.events =
               [j \in DOMAIN @ |->
                  IF j \in Range(s.queue) THEN Append(@[j], "queueCleared")
                  ELSE @[j]]]
  IN IF fault = "log" THEN Out(Throw(s1))
     ELSE IF fault = "emit" THEN Out(Throw(s2))
     ELSE Out(s2)

ClearQueueWith(faultSet) ==
  \E fault \in faultSet : Set(clearQueue(Core, fault).s)

ClearQueue == ClearQueueWith(NoFaults)

ClearQueueFaulty == ClearQueueWith(FaultsLeft)

\* ----- removeJob (lines 168-177) --------------------------------------
\* mutant: the job is taken out without a notification
removeJob_Silent(s, jobId, fault) ==
  LET index == findIndex(s.jobs, s.queue, jobId)
  IN IF index = 0 THEN [s |-> s, result |-> Null, threw |-> FALSE]
     ELSE [s |-> [s EXCEPT !.queue = RemoveAt(@, index),
                           !.removed = @ \cup {s.queue[index]}],
           result |-> s.queue[index], threw |-> FALSE]

\* the result is null when the job is not in the queue
removeJob(s, jobId, fault) ==
  LET index == findIndex(s.jobs, s.queue, jobId)
  IN IF index = 0 THEN [s |-> s, result |-> Null, threw |-> FALSE]
     ELSE LET removedJob == s.queue[index]
              Out(state) == [s |-> state, result |-> removedJob,
                             threw |-> fault # "none"]
              s1 == [s EXCEPT !.queue = RemoveAt(@, index),
                              !.removed = @ \cup {removedJob}]
              s2 == Emit(s1, "jobRemoved", removedJob)
          IN IF fault = "log" THEN Out(Throw(s1))
             ELSE IF fault = "emit" THEN Out(Throw(s2))
             ELSE Out(s2)

RemoveJobWith(faultSet) ==
  \E jobId \in JobIds :
    \E fault \in IF findIndex(jobs, queue, jobId) = 0 THEN NoFaults
                 ELSE faultSet :
      Set(removeJob(Core, jobId, fault).s)

RemoveJob == RemoveJobWith(NoFaults)

RemoveJobFaulty == RemoveJobWith(FaultsLeft)

\* ======================================================================
\* src/routes/queueRoutes.js and src/services/databaseService.js
\* ======================================================================
\* the files the database holds: their category and their path
Files ==
  [f1 |-> [category |-> "image", path |-> "uploads/f1"],
   f2 |-> [category |-> "document", path |-> ""]]

\* req.body.fileId: absent, or the id of a stored or of an unknown file
FileIds == {"", "f1", "f2", "f3"}

\* req.body.operation: absent or given
BodyOperations == {"", "resize"}

\* req.body.priority: absent, valid or not
BodyPriorities == {"undefined", "high", "urgent"}

Bodies ==
  [fileId : FileIds, operation : BodyOperations, priority : BodyPriorities]

\* req.params.jobId
RouteIds == {NewJobId(now, "a") : now \in 0..MaxRouteJobs}

\* what the queue file holds: nothing, text that is not JSON, a JSON
\* array (what the service writes) or another JSON value
QueueFiles == {"missing", "unreadable", "array", "object"}

\* databaseService.js lines 40-51: a file that is missing or cannot be
\* parsed reads as the default value
readDataFile(content, defaultValue) ==
  IF content \in {"missing", "unreadable"} THEN defaultValue ELSE content

\* databaseService.js lines 54-62: a failed write is logged and answered
\* with false
writeDataFile(writeOk) == writeOk

\* databaseService.js lines 92-100: files.find; the empty tuple stands
\* for undefined
getFile(fileId) ==
  IF fileId \in DOMAIN Files THEN <<Files[fileId]>> ELSE <<>>

\* databaseService.js lines 323-343: queue.push throws when the value
\* read is no array, and the catch block throws the error on; the value
\* writeDataFile returns is dropped
addToQueue(content, writeOk) ==
  LET queueRead == readDataFile(content, "array")
      written == writeDataFile(writeOk)
  IN IF queueRead = "array" THEN "resolved" ELSE "rejected"

\* a value of the program as a condition tests it
Object(fields) == [type |-> "object", fields |-> fields]

NullValue == [type |-> "null", fields |-> <<>>]

\* "!value": true of null and undefined, of no object
Not(value) == value.type \in {"null", "undefined"}

\* a route handler sends a response: the ResponseHelper method it calls,
\* the job its addJob call created (POST /jobs) or removed (DELETE),
\* and whether the queue held the job id asked for (GET /jobs/:jobId)
Respond(s, route, helper, job, found) ==
  [s EXCEPT !.answers = @ \cup {[route |-> route, helper |-> helper,
                                  job |-> job, found |-> found]}]

\* queueRoutes.js lines 14-22
getStatusRoute(s) ==
  LET status == getQueueStatus(s)
  IN Respond(s, "GET /status", "success", Null, FALSE)

\* queueRoutes.js lines 25-60: POST /jobs up to its second await.  The
\* handler touches nothing of the queue before it calls addJob, so the
\* stretch before `await databaseService.getFile` joins the one after.
postJobsRoute(s, body, jobId) ==
  LET priority == IF body.priority = "undefined" THEN "normal"
                  ELSE body.priority
      fileInfo == getFile(body.fileId)
      Reply(helper) == Respond(s, "POST /jobs", helper, Null, FALSE)
  IN IF body.fileId = "" \/ body.operation = "" THEN Reply("badRequest")
     ELSE IF priority \notin {"low", "normal", "high"}
          THEN Reply("badRequest")
     ELSE IF fileInfo = <<>> THEN Reply("notFound")
     ELSE IF fileInfo[1].path = "" THEN Reply("notFound")
     ELSE LET added == addJob(s, jobId, priority,
                              <<fileInfo[1].category, body.operation>>,
                              "none", FALSE).s
          IN [added EXCEPT !.posting = @ \cup {Len(added.jobs)}]

\* queueRoutes.js lines 61-81: `await databaseService.addToQueue`
\* settles; the catch block answers and leaves the queue as it is
postJobsSettled(s, job, content, writeOk) ==
  LET s1 == [s EXCEPT !.posting = @ \ {job}]
  IN IF addToQueue(content, writeOk) = "resolved"
     THEN Respond(s1, "POST /jobs", "created", job, FALSE)
     ELSE Respond(s1, "POST /jobs", "internalError", job, FALSE)

\* queueRoutes.js lines 85-99; getJobStatus returns an object on both
\* of its paths (processingQueue.js lines 133-148)
getJobRoute(s, jobId) ==
  LET status == Object(getJobStatus(s, jobId))
      found == findIndex(s.jobs, s.queue, jobId) # 0
  IN IF Not(status)
     THEN Respond(s, "GET /jobs/:jobId", "notFound", Null, found)
     ELSE Respond(s, "GET /jobs/:jobId", "success", Null, found)

\* queueRoutes.js lines 102-120; removeJob returns the job object or null
deleteJobRoute(s, jobId) ==
  LET call == removeJob(s, jobId, "none")
      removedJob == IF call.result = Null THEN NullValue
                    ELSE Object(call.result)
  IN IF Not(removedJob)
     THEN Respond(call.s, "DELETE /jobs/:jobId", "notFound", Null, FALSE)
     ELSE Respond(call.s, "DELETE /jobs/:jobId", "success", call.result,
                  FALSE)

\* queueRoutes.js lines 123-135
deleteJobsRoute(s) ==
  Respond(clearQueue(s, "none").s, "DELETE /jobs", "success", Null, FALSE)

GetStatusRoute == Set(getStatusRoute(Core))

PostJobs ==
  /\ Len(jobs) < MaxRouteJobs
  /\ \E body \in Bodies, jobId \in FreshIds(Len(jobs) + 1) :
       Set(postJobsRoute(Core, body, jobId))

PostJobsSettled ==
  \E job \in posting, content \in QueueFiles, writeOk \in BOOLEAN :
    Set(postJobsSettled(Core, job, content, writeOk))

GetJobRoute == \E jobId \in RouteIds : Set(getJobRoute(Core, jobId))

DeleteJobRoute == \E jobId \in RouteIds : Set(deleteJobRoute(Core, jobId))

DeleteJobsRoute == Set(deleteJobsRoute(Core))

Next ==
  \/ AddJob
  \/ Resume
  \/ ProcessNextCall
  \/ GetJobStatus
  \/ GetQueueStatus
  \/ ClearQueue
  \/ RemoveJob

Spec == Init /\ [][Next]_vars

NextFaults ==
  \/ AddJobFaulty
  \/ ResumeFaulty
  \/ ProcessNextCallFaulty
  \/ GetJobStatus
  \/ GetQueueStatus
  \/ ClearQueueFaulty
  \/ RemoveJobFaulty

SpecFaults == Init /\ [][NextFaults]_vars

NextExec ==
  \/ AddJobExec
  \/ ResumeExec
  \/ ProcessNextCall
  \/ GetJobStatus
  \/ GetQueueStatus
  \/ ClearQueue
  \/ RemoveJob

SpecExec == Init /\ [][NextExec]_vars

NextIds ==
  \/ AddJobIds
  \/ Resume
  \/ ProcessNextCall
  \/ GetJobStatus
  \/ GetQueueStatus
  \/ ClearQueue
  \/ RemoveJob

SpecIds == Init /\ [][NextIds]_vars

NextLive ==
  \/ AddJobLive
  \/ Resume
  \/ ProcessNextCall
  \/ GetJobStatus
  \/ GetQueueStatus
  \/ ClearQueue
  \/ RemoveJob

\* every executeJob settles: the promise awaited at line 56 is fulfilled
\* or rejected in the end
SpecLive == Init /\ [][NextLive]_vars /\ WF_vars(Resume)

NextRoutes ==
  \/ GetStatusRoute
  \/ PostJobs
  \/ PostJobsSettled
  \/ GetJobRoute
  \/ DeleteJobRoute
  \/ DeleteJobsRoute
  \/ Resume

SpecRoutes == Init /\ [][NextRoutes]_vars

\* ======================================================================
\* Properties
\* ======================================================================
Created == DOMAIN jobs

Terminal == {"completed", "failed"}

NumProcessing == Cardinality({j \in Created : jobs[j].status = "processing"})

\* no executeJob has settled, no job was removed or discarded
NothingReturnedYet ==
  /\ \A j \in Created : jobs[j].status \notin Terminal
  /\ removed = {} /\ cleared = {}

\* C1: in every reachable state neither the activeJobs counter nor the
\* number of jobs whose status is 'processing' exceeds maxConcurrent.
C1_ConcurrencyCeiling ==
  /\ activeJobs <= maxConcurrent
  /\ NumProcessing <= maxConcurrent

\* C1 witness: more jobs were submitted than the ceiling admits, one is
\* executing and the others wait.
C1_Witness ==
  /\ Len(jobs) > maxConcurrent
  /\ NumProcessing >= 1
  /\ Len(queue) >= 2

\* C2 (as claimed): once more jobs than the ceiling have been submitted
\* and no operation has returned, exactly maxConcurrent jobs are
\* 'processing' and the others are 'queued'.
C2_CeilingJobsProcessing ==
  (Len(jobs) > maxConcurrent /\ NothingReturnedYet) =>
     /\ NumProcessing = maxConcurrent
     /\ Len(queue) = Len(jobs) - maxConcurrent

\* C3 (as claimed): whenever a job is dispatched, no job of strictly
\* higher priority is left in the pending collection.
C3_NoHigherPriorityPending ==
  [][Len(started') > Len(started) =>
       \A i \in DOMAIN queue' :
         priorityOrder(jobs'[queue'[i]].priority)
           <= priorityOrder(jobs'[started'[Len(started')]].priority)]_vars

\* C4: of two dispatched jobs of equal priority, the one submitted first
\* was dispatched first.
C4_FifoWithinTier ==
  \A a, b \in DOMAIN started :
    (a < b /\ jobs[started[a]].priority = jobs[started[b]].priority)
      => started[a] < started[b]

\* C4 witness: the addJob call of job 1 threw before its dispatch (no
\* jobAdded was emitted), so job 1 waited for a later processNext, and
\* two jobs of one tier were dispatched, job 1 first.
C4_Witness ==
  /\ Len(started) = 2
  /\ "jobAdded" \notin Range(events[1])
  /\ jobs[1].priority = jobs[2].priority
  /\ started = <<1, 2>>

\* C5 (as claimed): A(normal), B(high), C(normal) submitted in that order
\* are dispatched B first, then A, and C waits while A and B execute.
C5_ScenarioOrder ==
  ( /\ Len(jobs) = 3
    /\ jobs[1].priority = "normal"
    /\ jobs[2].priority = "high"
    /\ jobs[3].priority = "normal"
    /\ removed = {} /\ cleared = {}
    /\ Len(started) >= 2 )
  => /\ started[1] = 2
     /\ started[2] = 1
     /\ ({1, 2} \subseteq awaiting => jobs[3].status = "queued")

\* C6 (as claimed): getJobStatus called right after addJob has returned
\* reports 'queued' for the job just submitted.
C6_QueuedAfterAddJob ==
  [][Len(jobs') = Len(jobs) + 1 =>
       getJobStatus(Core', jobs'[Len(jobs')].id) = "queued"]_vars

\* C7 (as claimed): a job that was neither removed nor discarded is never
\* reported not-found: the lookup says 'processing' while it executes
\* and 'completed' or 'failed' afterwards.
C7_Discoverable ==
  \A j \in Created \ (removed \cup cleared) :
    /\ getJobStatus(Core, jobs[j].id) # "not_found"
    /\ getJobStatus(Core, jobs[j].id) = jobs[j].status

\* C8: removeJob with the id of a job whose status is 'processing',
\* 'completed' or 'failed' returns null and leaves the whole state as it
\* was (activeJobs, the queue, no jobRemoved notification).
C8_RemoveStartedJobIsNotFound ==
  \A j \in Created :
    jobs[j].status \in {"processing"} \cup Terminal =>
      \A fault \in Faults :
        LET r == removeJob(Core, jobs[j].id, fault)
        IN /\ r.result = Null
           /\ ~r.threw
           /\ r.s = Core

\* C8 witness: one job executes, one has finished and one is pending, so
\* removeJob has a job it could take.
C8_Witness ==
  /\ \E j \in Created : jobs[j].status = "processing"
  /\ \E j \in Created : jobs[j].status \in Terminal
  /\ Len(queue) >= 1

\* C9: a job removeJob took out of the queue is never dispatched (it
\* stays 'queued', outside the queue, never awaited), and removeJob
\* returns no job that was dispatched.
C9_RemovalExcludesDispatch ==
  /\ removed \cap Range(started) = {}
  /\ \A j \in removed :
       /\ jobs[j].status = "queued"
       /\ j \notin awaiting
       /\ j \notin Range(queue)
  /\ \A j \in Range(started) :
       removeJob(Core, jobs[j].id, "none").result = Null

\* C9 witness: a job was removed and a job submitted after it was
\* dispatched and has finished.
C9_Witness ==
  /\ \E j \in removed : \E k \in Range(started) :
       k > j /\ jobs[k].status \in Terminal
  /\ queue = <<>>
  /\ activeJobs = 0

\* C10: clearQueue leaves the queue empty, returns the number of pending
\* jobs, and changes nothing about executing jobs (activeJobs, the jobs
\* awaited, every job's fields, the processing flag); a discarded job is
\* never dispatched, and every job marked 'processing' is still awaited
\* by processNext, which will record its outcome.
C10_ClearQueueFrame ==
  /\ \A fault \in Faults :
       LET r == clearQueue(Core, fault)
       IN /\ r.s.queue = <<>>
          /\ r.result = Cardinality({j \in Created : j \in Range(queue)})
          /\ r.s.activeJobs = activeJobs
          /\ r.s.awaiting = awaiting
          /\ r.s.jobs = jobs
          /\ r.s.started = started
          /\ r.s.processing = processing
          /\ r.s.cleared = cleared \cup Range(queue)
  /\ cleared \cap Range(started) = {}
  /\ \A j \in cleared : jobs[j].status = "queued" /\ j \notin Range(queue)
  /\ \A j \in Created : jobs[j].status = "processing" <=> j \in awaiting

\* C10 witness: jobs were discarded while another job executed, and that
\* job has since finished.
C10_Witness ==
  /\ cleared # {}
  /\ activeJobs = 0
  /\ \E k \in Range(started) : jobs[k].status \in Terminal

\* the type and operation combinations a processor routine serves
SupportedKinds ==
  {<<"image", "resize">>, <<"image", "convert">>, <<"image", "compress">>,
   <<"document", "convert">>, <<"document", "extract">>,
   <<"media", "extract">>}

KnownTypes == {"image", "document", "media"}

Kind(job) == <<job.type, job.operation>>

\* C11: a job whose type and operation no routine serves never has a
\* processor routine invoked and never completes; once dispatched and
\* settled it is 'failed', and its error names the unknown type, or the
\* operation its type does not support.
C11_UnsupportedFailsFast ==
  \A j \in Created :
    Kind(jobs[j]) \notin SupportedKinds =>
      /\ calls[j] = <<>>
      /\ jobs[j].status \in {"queued", "processing", "failed"}
      /\ jobs[j].status = "queued" <=> j \notin Range(started)
      /\ jobs[j].status = "processing" <=> j \in awaiting
      /\ jobs[j].status = "failed" =>
           /\ ~jobs[j].result
           /\ events[j] = <<"jobAdded", "jobFailed">>
           /\ jobs[j].error =
                IF jobs[j].type \notin KnownTypes
                THEN <<"Unknown job type: ", jobs[j].type>>
                ELSE <<"Unsupported " \o jobs[j].type \o " operation: ",
                       jobs[j].operation>>

\* C11 witness: 'resize' on a 'document' has failed, and so has a job
\* of an unknown type.
C11_Witness ==
  /\ \E j \in Created :
       /\ Kind(jobs[j]) = <<"document", "resize">>
       /\ jobs[j].status = "failed"
  /\ \E j \in Created :
       /\ jobs[j].type = "archive"
       /\ jobs[j].status = "failed"

\* the processor routine of job j was called and raised
RoutineRaised(j) == calls[j] # <<>> /\ raised[j] # NoError

\* C12: a job whose processor routine raised is 'failed', its error is
\* the message the routine raised, it holds no result, and its routine
\* was invoked once; no job has its routine invoked twice.
C12_RoutineErrorVerbatim ==
  /\ \A j \in Created :
       RoutineRaised(j) =>
         /\ jobs[j].status = "failed"
         /\ jobs[j].error = raised[j]
         /\ ~jobs[j].result
         /\ Len(calls[j]) = 1
  /\ \A j \in Created : Len(calls[j]) <= 1

\* C12 witness: convertDocument raised EINVAL for one job and a job
\* submitted after it was dispatched.
C12_Witness ==
  \E j \in Created :
    /\ calls[j] = <<"convertDocument">>
    /\ raised[j] = <<"EINVAL">>
    /\ jobs[j].status = "failed"
    /\ \E k \in Range(started) : k > j

\* the step in which job j goes from 'processing' to 'failed'
Fails(j) == jobs[j].status = "processing" /\ jobs'[j].status = "failed"

C14_ResultXorError ==
  \A j \in Created :
    /\ ~(jobs[j].result /\ jobs[j].error # NoError)
    /\ jobs[j].status = "completed" =>
         jobs[j].result /\ jobs[j].error = NoError
    /\ jobs[j].status = "failed" =>
         jobs[j].error # NoError /\ ~jobs[j].result

\* the statuses a job may have one step after having status st
After(st) ==
  CASE st = "queued" -> {"queued", "processing"}
    [] st = "processing" -> {"processing", "completed", "failed"}
    [] st = "completed" -> {"completed"}
    [] st = "failed" -> {"failed"}

C16_UniqueIds ==
  \A i, j \in Created : i # j => jobs[i].id # jobs[j].id

\* the ids no job was ever given, and the ids of the jobs removeJob took
UnknownIds == {id \in JobIds : \A j \in Created : jobs[j].id # id}

RemovedIds == {jobs[j].id : j \in removed}

\* C17: for an id no job has, and for the id of a removed job,
\* getJobStatus answers 'not_found' (not 'failed') and removeJob returns
\* null, throws nothing and leaves the state as it was.
C17_NotFoundIsDistinct ==
  \A id \in UnknownIds \cup RemovedIds :
    /\ getJobStatus(Core, id) = "not_found"
    /\ getJobStatus(Core, id) \notin {"failed", "queued", "processing",
                                       "completed"}
    /\ \A fault \in Faults :
         removeJob(Core, id, fault) =
           [s |-> Core, result |-> Null, threw |-> FALSE]

\* C17 witness: a job was removed while another job is pending, which a
\* lookup does find.
C17_Witness ==
  /\ removed # {}
  /\ queue # <<>>
  /\ getJobStatus(Core, jobs[Head(queue)].id) = "queued"
  /\ UnknownIds # {}

\* how often a notification occurs in a job's log
Count(log, name) == Cardinality({i \in DOMAIN log : log[i] = name})

\* C18: in every reachable state, whatever priority and kind it is
\* given, addJob returns the id it made and does not throw; the new job
\* has the given priority, or 'normal' when none is given; when its
\* jobAdded listeners run (the state a throwing listener leaves behind)
\* the job is 'queued' at the tail of the queue, not dispatched, and
\* nothing else has changed; when the call returns one jobAdded has been
\* emitted for it.  Every job's log starts with its only jobAdded.
C18_AddJobContract ==
  /\ \A priorityArg \in PriorityArgs, kind \in FewKinds :
       LET n == Len(jobs) + 1
           jobId == NewJobId(n, "a")
           r == addJob(Core, jobId, priorityArg, kind, "none", FALSE)
           atEmit == addJob(Core, jobId, priorityArg, kind, "emit", FALSE).s
       IN /\ ~r.threw
          /\ r.result = jobId
          /\ Len(r.s.jobs) = n
          /\ r.s.jobs[n].id = jobId
          /\ r.s.jobs[n].priority =
               (IF priorityArg = "undefined" THEN "normal" ELSE priorityArg)
          /\ r.s.jobs[n].status \in {"queued", "processing"}
          /\ r.s.events[n] = <<"jobAdded">>
          /\ atEmit.jobs[n].status = "queued"
          /\ atEmit.queue = Append(queue, n)
          /\ atEmit.started = started
          /\ atEmit.activeJobs = activeJobs
          /\ atEmit.events[n] = <<"jobAdded">>
          /\ \A j \in Created : atEmit.jobs[j] = jobs[j]
  /\ \A j \in Created :
       /\ events[j] # <<>>
       /\ Head(events[j]) = "jobAdded"
       /\ Count(events[j], "jobAdded") = 1

\* C18 witness: the newest job was given no priority or 'normal' and
\* waits at the tail of the queue behind another job, while an earlier
\* job executes.
C18_Witness ==
  /\ Len(queue) >= 2
  /\ queue[Len(queue)] = Len(jobs)
  /\ jobs[Len(jobs)].priority = "normal"
  /\ jobs[Len(jobs)].status = "queued"
  /\ awaiting # {}

\* the notifications that close a job's lifecycle
Closing == {"jobCompleted", "jobFailed", "jobRemoved", "queueCleared"}

NumClosing(j) == Cardinality({i \in DOMAIN events[j] : events[j][i] \in Closing})

Pending == {j \in Created : jobs[j].status = "queued"} \ (removed \cup cleared)

C21_DecrementBeforeNotify ==
  \A j \in Created : \A i \in DOMAIN seen[j] :
    seen[j][i].processing = seen[j][i].executing

\* C22: in every reachable state, a processNext call made while the
\* processing flag is up, or with an empty queue, returns the state as
\* it is (queue, counter, flag, jobs, notifications); so does a call made
\* with the counter at the ceiling, a state taken here from the reachable
\* one by raising the counter, since the counter never gets there.
C22_BlockedIsNoOp ==
  \A startThrows \in BOOLEAN :
    /\ (processing \/ queue = <<>>) => processNext(Core, startThrows) = Core
    /\ \A n \in maxConcurrent .. maxConcurrent + 1 :
         LET atCeiling == [Core EXCEPT !.activeJobs = n, !.processing = FALSE]
         IN processNext(atCeiling, startThrows) = atCeiling

\* C22 witness: the flag is up while two jobs are pending, so a
\* processNext call would have work were it not blocked.
C22_Witness ==
  /\ processing
  /\ Len(queue) >= 2
  /\ activeJobs < maxConcurrent

\* C23 (as claimed): whenever no job is active and no processNext
\* invocation is suspended on a job, the processing flag is down, also
\* after a job failed or a listener threw.
C23_FlagClearedWhenIdle ==
  (activeJobs = 0 /\ awaiting = {}) => ~processing

\* the dispatched jobs whose execution has settled and been recorded
Finished == {j \in Range(started) : jobs[j].status \in Terminal}

\* C24: no job occurs twice in the dispatch log or is still pending
\* after its dispatch; no job has its routine started twice; and the
\* counter is the number of dispatches less the number of finished
\* jobs, each dispatched job being either awaited or finished.
C24_NoDoubleDispatch ==
  /\ \A a, b \in DOMAIN started : a # b => started[a] # started[b]
  /\ Range(started) \cap Range(queue) = {}
  /\ \A j \in Created : Len(calls[j]) <= 1
  /\ \A j \in Created : calls[j] # <<>> => j \in Range(started)
  /\ activeJobs = Len(started) - Cardinality(Finished)
  /\ Range(started) = awaiting \cup Finished
  /\ awaiting \cap Finished = {}

\* C24 witness: three jobs were dispatched, between a removal or a
\* clearQueue or not, and all three have finished.
C24_Witness ==
  /\ Len(started) = 3
  /\ Cardinality(Finished) = 3
  /\ activeJobs = 0

Idle == queue = <<>> /\ activeJobs = 0 /\ ~processing

Answers(route) == {a \in answers : a.route = route}

\* C29: GET /jobs/:jobId answers not-found whenever the queue does not
\* hold the job id asked for, and success only when getJobStatus found
\* the job.
C29_NotFoundAnswer ==
  \A a \in Answers("GET /jobs/:jobId") :
    /\ ~a.found => a.helper = "notFound"
    /\ a.helper = "success" => a.found

\* C30: a POST /jobs request answered with an error (bad request, file
\* not found, internal error) has added no job to the queue, and so
\* started none.
C30_AllOrNothing ==
  \A a \in Answers("POST /jobs") :
    a.helper # "created" =>
      /\ a.job = Null
      /\ a.job \notin Range(started)
====
